---- MODULE Spec2Model ----
(***************************************************************************)
(* Model of snapcast_upnp.py: the Snapcast stream plugin that bridges a    *)
(* UPnP/DLNA media renderer (DmrDevice) to Snapcast's line-oriented        *)
(* JSON-RPC channel on stdin/stdout.                                       *)
(*                                                                         *)
(* One asyncio event loop runs two kinds of task: the main task (_run)     *)
(* and the debounce task (DmrEventHandler._notify).  A task runs until it  *)
(* awaits, so every action below is one stretch of code between awaits.    *)
(***************************************************************************)
EXTENDS Integers, Sequences, FiniteSets

VARIABLES
    pc,               \* position of the main task (_run)
    transport_state,  \* device.transport_state
    task,             \* DmrEventHandler._task: "None" or "Task"
    tasks,            \* the _notify tasks alive: remaining sleep of each
    nOut,             \* history: number of lines written to stdout
    lastOut,          \* history: the last line written to stdout
    stdoutOpen,       \* whether stdout.write accepts a line or raises
    invoked,          \* renderer action awaited by send_control, or "none"
    schedState,       \* history: transport_state when the task was created
    burst,            \* history: non-empty events since the task was created
    dirty,            \* history: a non-empty event is not yet reported
    notified,         \* history: params of the last Properties notification
    line,             \* _run's local `line`: the last line readline returned
    firstOut,         \* history: the first line written to stdout
    nReady,           \* history: number of ready lines written to stdout
    volume_level,     \* device.volume_level, in units of 1/LevelScale
    has_volume_level, \* device.has_volume_level
    volume            \* the "volume" member get_properties last computed

vars == <<pc, transport_state, task, tasks, nOut, lastOut, stdoutOpen, invoked,
          schedState, burst, dirty, notified, line, firstOut, nReady,
          volume_level, has_volume_level, volume>>

(***************************************************************************)
(* Bounds.                                                                 *)
(***************************************************************************)
\* at most MaxOut lines are written to stdout; a further write blocks.
MaxOut == 2
\* burst counts up to MaxBurst and stays there.
MaxBurst == 2
\* a volume level is a whole number of 1/LevelScale, from 0 to 1.
LevelScale == 1000

(***************************************************************************)
(* Program constants.                                                      *)
(***************************************************************************)
\* asyncio.sleep(1.5), counted in ticks of 0.5 s
Delay == 3

Absent == "absent"

\* TransportState members the renderer can report.  NO_MEDIA_PRESENT stands
\* for every state the table below has no key for, the value None that the
\* device holds before its first event included: the code treats them alike.
TransportStates ==
    {"PLAYING", "TRANSITIONING", "PAUSED_PLAYBACK", "STOPPED", "NO_MEDIA_PRESENT"}

_SNAPCAST_PLAYER_INTERFACE == <<"Plugin", "Stream", "Player">>
_SNAPCAST_SUPPORTED_COMMANDS == {"Control", "SetProperty", "GetProperties"}
_SNAPCAST_STREAM_READY == "Plugin.Stream.Ready"
_SNAPCAST_PLAYER_PROPERTIES == "Plugin.Stream.Player.Properties"

\* dict.get(state, "stopped") on _TRANSPORT_STATE_TO_PLAYBACK_STATE
_TRANSPORT_STATE_TO_PLAYBACK_STATE(state) ==
    CASE state = "PLAYING" -> "playing"
      [] state = "TRANSITIONING" -> "playing"
      [] state = "PAUSED_PLAYBACK" -> "paused"
      [] state = "STOPPED" -> "stopped"
      [] OTHER -> "stopped"

\* get_properties(device): the fields that depend on the transport state.
\* metadata is TRUE for a populated metadata object, FALSE for None.
get_properties(state) ==
    [playbackStatus |-> _TRANSPORT_STATE_TO_PLAYBACK_STATE(state),
     metadata |-> (state # "STOPPED")]

\* A value that may be missing: <<>> for None, <<v>> for the value v.
NoValue == <<>>

\* device.volume_level: None or a level from 0 to 1
Levels == {NoValue} \cup {<<k>> : k \in 0..LevelScale}

\* `device.volume_level or 0.0`
level_or_zero(level) == IF level = NoValue THEN 0 ELSE level[1]

\* the "volume" member of get_properties:
\* int(100 * (device.volume_level or 0.0)) if device.has_volume_level else 100.
\* int() drops the fraction.
props_volume(level, has_level) ==
    IF has_level THEN (100 * level_or_zero(level)) \div LevelScale ELSE 100

\* jsonrpc_response(result, *, id=1)
jsonrpc_response(result, id) ==
    [type |-> "response", id |-> id, result |-> result]

\* JSON values other than the properties object, as records so that any two
\* values can be compared: None, and the string "ok"
None == [json |-> "null"]
Ok == [json |-> "string", value |-> "ok"]

\* jsonrpc_command writing "params" whatever its value
jsonrpc_command_with_params(method, params) ==
    [type |-> "command", method |-> method, params |-> params]

\* jsonrpc_command(method, params=None); "params" is left out when falsy
jsonrpc_command(method, params) ==
    IF params = None
    THEN [type |-> "command", method |-> method]
    ELSE [type |-> "command", method |-> method, params |-> params]

DefaultId == 1

(***************************************************************************)
(* Inbound lines.  A line is what stdin.readline() returns; a request's    *)
(* method is kept as its "."-separated segments.                           *)
(***************************************************************************)
RequestIds == {7}
Commands == _SNAPCAST_SUPPORTED_COMMANDS \cup {"Seek"}
ControlCommands == {"stop", "play", "pause", "playPause", "previous", "next"}
NoMethod == <<>>
PlayerMethod(c) == _SNAPCAST_PLAYER_INTERFACE \o <<c>>
Methods ==
    {PlayerMethod(c) : c \in Commands}
        \cup {<<"Foo", "Bar">>, <<"Foo", "GetProperties">>, <<"NoDot">>}

\* kind: "undecodable" bytes that are not UTF-8; "invalid" text that is not
\* JSON; "eof" the empty bytes readline returns at end-of-input; "nonobject"
\* a JSON value that is no object; "object" a JSON object.  An object has an "id" member
\* iff hasId, a "method" member iff method # NoMethod; params is Absent (no
\* "params" member), "nocommand" (params without "command") or
\* params["command"].
Lines ==
    [kind : {"undecodable", "invalid", "eof", "nonobject"},
     method : {NoMethod}, hasId : {FALSE}, id : {0}, params : {Absent}]
    \cup
    [kind : {"object"},
     method : (Methods \cup {NoMethod}) \ {PlayerMethod("Control")},
     hasId : {TRUE}, id : RequestIds,
     params : {Absent}]
    \cup
    [kind : {"object"},
     method : {PlayerMethod("GetProperties")},
     hasId : {FALSE}, id : {0},
     params : {Absent}]
    \cup
    [kind : {"object"},
     method : {PlayerMethod("Control")},
     hasId : {TRUE}, id : RequestIds,
     params : ControlCommands \cup {"seek", "nocommand", Absent}]
    \cup
    [kind : {"object"},
     method : {PlayerMethod("Control")},
     hasId : {FALSE}, id : {0},
     params : {"play", "seek"}]

\* `line` before the first readline returns
NoLine == [kind |-> "none", method |-> NoMethod, hasId |-> FALSE, id |-> 0,
           params |-> Absent]

\* json.loads(l): the exception it raises, or "ok".  readline returns bytes,
\* which json.loads decodes before it parses: bytes that do not decode raise
\* UnicodeDecodeError, a ValueError that is no json.JSONDecodeError.
json_loads(l) ==
    IF l.kind = "undecodable" THEN "UnicodeDecodeError"
    ELSE IF l.kind \in {"invalid", "eof"} THEN "JSONDecodeError"
    ELSE "ok"

\* method.rsplit(".", 1): split at the last separator
rsplit(method) ==
    IF Len(method) >= 2
    THEN <<SubSeq(method, 1, Len(method) - 1), method[Len(method)]>>
    ELSE <<method>>

\* a router that lets every interface through
InterfaceAcceptedAny(interface) == TRUE

\* interface != _SNAPCAST_PLAYER_INTERFACE is False
InterfaceAccepted(interface) == interface = _SNAPCAST_PLAYER_INTERFACE

\* not command in _SNAPCAST_SUPPORTED_COMMANDS is False
CommandSupported(command) == command \in _SNAPCAST_SUPPORTED_COMMANDS

\* send_control returning without starting any device method
control_method_skipped(command, state) == "none"

\* send_control choosing the playPause method from the state the device had
\* when it was connected, before any event
control_method_stale(command, state) ==
    IF command = "stop" THEN "async_stop"
    ELSE IF command = "play" THEN "async_play"
    ELSE IF command \in {"pause", "playPause"} THEN "async_pause"
    ELSE IF command = "previous" THEN "async_previous"
    ELSE IF command = "next" THEN "async_next"
    ELSE "none"

\* control_methods.get(command) in send_control: the device method the
\* command maps to with the device in `state`, "none" for no entry
control_method(command, state) ==
    IF command = "stop" THEN "async_stop"
    ELSE IF command = "play" THEN "async_play"
    ELSE IF command = "pause" THEN "async_pause"
    ELSE IF command = "playPause"
        THEN (IF state = "PAUSED_PLAYBACK" THEN "async_play" ELSE "async_pause")
    ELSE IF command = "previous" THEN "async_previous"
    ELSE IF command = "next" THEN "async_next"
    ELSE "none"

\* a router that answers SetProperty as it answers GetProperties
RouteSetPropertyAnswered(l) ==
    IF json_loads(l) = "JSONDecodeError" THEN "continue"
    ELSE IF json_loads(l) = "UnicodeDecodeError" THEN "raise"
    ELSE IF l.kind = "nonobject" THEN "raise"
    ELSE IF l.method = NoMethod THEN "raise"
    ELSE IF Len(rsplit(l.method)) # 2 THEN "raise"
    ELSE IF ~InterfaceAccepted(rsplit(l.method)[1]) THEN "continue"
    ELSE IF ~CommandSupported(rsplit(l.method)[2]) THEN "continue"
    ELSE IF rsplit(l.method)[2] \in {"GetProperties", "SetProperty"}
        THEN "get_properties"
    ELSE IF l.params \in {Absent, "nocommand"} THEN "raise"
    ELSE "control"

\* What one pass of the while loop does with the line `l`, up to its first await
\* or write: "continue" (dropped, next line), "raise" (an exception no
\* except clause of _run catches), "get_properties", "control",
\* "set_property".
Route(l) ==
    IF json_loads(l) = "JSONDecodeError" THEN "continue"
    ELSE IF json_loads(l) = "UnicodeDecodeError" THEN "raise"
    ELSE IF l.kind = "nonobject" THEN "raise"      \* TypeError
    ELSE IF l.method = NoMethod THEN "raise"       \* KeyError
    ELSE IF Len(rsplit(l.method)) # 2 THEN "raise" \* ValueError
    ELSE IF ~InterfaceAccepted(rsplit(l.method)[1]) THEN "continue"
    ELSE IF ~CommandSupported(rsplit(l.method)[2]) THEN "continue"
    ELSE IF rsplit(l.method)[2] = "GetProperties" THEN "get_properties"
    ELSE IF rsplit(l.method)[2] = "Control"
        THEN (IF l.params \in {Absent, "nocommand"}
              THEN "raise"                            \* KeyError
              ELSE "control")
    ELSE "set_property"

(***************************************************************************)
(* The debouncer: DmrEventHandler.                                         *)
(***************************************************************************)
\* lastOut before the first write
NoOut == [type |-> "none"]

\* a Plugin.Stream.Ready notification without params
IsReady(out) ==
    out.type = "command" /\ out.method = "Plugin.Stream.Ready"
        /\ DOMAIN out = {"type", "method"}

\* stdout.write(out), accepted
Write(out) ==
    /\ nOut < MaxOut
    /\ nOut' = nOut + 1
    /\ lastOut' = out
    /\ firstOut' = IF nOut = 0 THEN out ELSE firstOut
    /\ nReady' = IF IsReady(out) THEN nReady + 1 ELSE nReady

Alive == pc \notin {"exited", "crashed"}
Subscribed == pc \in {"subscribing", "updating", "reading", "control", "unsubscribing"}

MainVars == <<pc, invoked, line>>
OutVars == <<nOut, lastOut, firstOut, nReady>>
VolumeVars == <<volume_level, has_volume_level, volume>>
DebounceVars == <<transport_state, task, tasks, schedState, burst, dirty, notified>>

\* a callback that takes self._task for None whatever it holds
NoTaskPendingAlways(t) == TRUE

\* self._task is None
NoTaskPending(t) == t = "None"

\* _notify mapping the state it captured when it was created
NotifyReadAtCreate(now, atCreate) == atCreate

\* the device whose state _notify maps: self._device as it is when the task
\* resumes after the sleep (`now`), not as it was when the task was created
NotifyRead(now, atCreate) == now

\* _notify leaving self._task as it found it
ClearedTaskKept == "Task"

\* the value _notify leaves in self._task
ClearedTask == "None"

Min(a, b) == IF a < b THEN a ELSE b

\* callback(service, state_variables) for an event that carries at least one
\* state variable; the device has taken the event's state before the call.
RendererEvent(new) ==
    /\ Alive /\ Subscribed
    /\ transport_state' = new
    /\ dirty' = TRUE
    /\ IF NoTaskPending(task)
       THEN /\ task' = "Task"
            /\ tasks' = Append(tasks, Delay)
            /\ schedState' = new
            /\ burst' = 1
       ELSE /\ burst' = Min(burst + 1, MaxBurst)
            /\ UNCHANGED <<task, tasks, schedState>>
    /\ UNCHANGED <<stdoutOpen, notified>>
    /\ UNCHANGED MainVars
    /\ UNCHANGED OutVars
    /\ UNCHANGED VolumeVars

\* callback(service, state_variables) with no state variable: returns at once
EmptyEvent ==
    /\ Alive /\ Subscribed
    /\ UNCHANGED vars

RemoveAt(s, i) == SubSeq(s, 1, i - 1) \o SubSeq(s, i + 1, Len(s))

\* Half a second passes: every sleeping task is that much nearer its wake-up.
\* A task whose sleep is over runs before more time passes.
Tick ==
    /\ Alive
    /\ tasks # <<>>
    /\ \A i \in 1..Len(tasks) : tasks[i] > 0
    /\ tasks' = [i \in 1..Len(tasks) |-> tasks[i] - 1]
    /\ UNCHANGED <<transport_state, task, schedState, burst, dirty, notified>>
    /\ UNCHANGED stdoutOpen
    /\ UNCHANGED MainVars
    /\ UNCHANGED OutVars
    /\ UNCHANGED VolumeVars

\* _notify after its sleep: map, write, clear.  A write that raises ends the
\* task there.
NotifyRun(i) ==
    /\ Alive
    /\ i \in 1..Len(tasks)
    /\ tasks[i] = 0
    /\ tasks' = RemoveAt(tasks, i)
    /\ IF stdoutOpen
       THEN /\ Write(jsonrpc_command(_SNAPCAST_PLAYER_PROPERTIES,
                       get_properties(NotifyRead(transport_state, schedState))))
            /\ task' = ClearedTask
            /\ dirty' = FALSE
            /\ notified' = get_properties(NotifyRead(transport_state, schedState))
       ELSE /\ UNCHANGED <<task, dirty, notified>>
            /\ UNCHANGED OutVars
    /\ UNCHANGED <<transport_state, schedState, burst, stdoutOpen>>
    /\ UNCHANGED MainVars
    /\ UNCHANGED VolumeVars

(***************************************************************************)
(* The main task: connect_device and _run.                                 *)
(*   "connecting"    connect_device, up to the callback's registration     *)
(*   "subscribing"   awaiting async_subscribe_services                     *)
(*   "updating"      awaiting device.async_update                          *)
(*   "reading"       awaiting stdin.readline                               *)
(*   "control"       awaiting the device method in send_control            *)
(*   "unsubscribing" awaiting async_unsubscribe_services                   *)
(*   "exited"        exit(0)                                               *)
(*   "crashed"       an exception left _run                                *)
(***************************************************************************)
\* connect_device up to `dmr_device.on_event = event_handler.callback`; a
\* device that cannot be reached raises.
Connect(ok) ==
    /\ pc = "connecting"
    /\ pc' = IF ok THEN "subscribing" ELSE "crashed"
    /\ UNCHANGED <<invoked, line, stdoutOpen>>
    /\ UNCHANGED OutVars
    /\ UNCHANGED DebounceVars
    /\ UNCHANGED VolumeVars

\* async_subscribe_services returns (or raises) and _run goes on to
\* device.async_update()
Subscribe(ok) ==
    /\ pc = "subscribing"
    /\ pc' = IF ok THEN "updating" ELSE "crashed"
    /\ UNCHANGED <<invoked, line, stdoutOpen>>
    /\ UNCHANGED OutVars
    /\ UNCHANGED DebounceVars
    /\ UNCHANGED VolumeVars

\* async_update returns (or raises); _run writes the ready line and awaits
\* the first inbound line
Ready(ok) ==
    /\ pc = "updating"
    /\ IF ok /\ stdoutOpen
       THEN /\ Write(jsonrpc_command(_SNAPCAST_STREAM_READY, None))
            /\ pc' = "reading"
       ELSE /\ pc' = "crashed"
            /\ UNCHANGED OutVars
    /\ UNCHANGED <<invoked, line, stdoutOpen>>
    /\ UNCHANGED DebounceVars
    /\ UNCHANGED VolumeVars

\* the id= argument of the GetProperties response: none is passed, so
\* jsonrpc_response's default
GetPropertiesId(l) == [hasId |-> TRUE, id |-> DefaultId]

\* the id= argument of the Control response: request["id"]
ControlId(l) == [hasId |-> l.hasId, id |-> l.id]

\* a response is built and written, and the loop awaits the next line; an id
\* lookup that raises KeyError, or a write that raises, ends _run
Respond(result, id) ==
    IF id.hasId /\ stdoutOpen
    THEN /\ Write(jsonrpc_response(result, id.id))
         /\ pc' = "reading"
    ELSE /\ pc' = "crashed"
         /\ UNCHANGED OutVars

\* send_control starting the device method without awaiting it: _run goes on
\* to the next readline
ActionNotAwaited == "reading"

\* `await method()` in send_control: the position of _run while the device
\* method is in flight
ActionAwaited == "control"

\* one pass of the while loop: readline returns `l`, which is handled up to
\* the next await (the next readline, or the device method of a Control).
\* Once the input has ended every readline returns the empty bytes.
ReadLine(l) ==
    /\ pc = "reading"
    /\ line.kind = "eof" => l.kind = "eof"
    /\ line' = l
    /\ LET route == Route(l) IN
       IF route = "raise"
       THEN /\ pc' = "crashed"
            /\ UNCHANGED invoked
            /\ UNCHANGED OutVars
       ELSE IF route = "get_properties"
       THEN /\ Respond(get_properties(transport_state), GetPropertiesId(l))
            /\ UNCHANGED invoked
       ELSE IF route = "control"
       THEN IF control_method(l.params, transport_state) # "none"
            THEN /\ invoked' = control_method(l.params, transport_state)
                 /\ pc' = ActionAwaited
                 /\ UNCHANGED OutVars
            ELSE /\ Respond(Ok, ControlId(l))
                 /\ UNCHANGED invoked
       ELSE /\ UNCHANGED <<pc, invoked>>
            /\ UNCHANGED OutVars
    /\ UNCHANGED stdoutOpen
    /\ UNCHANGED DebounceVars
    /\ UNCHANGED VolumeVars

\* the awaited device method returns (or raises); on return _run writes the
\* "ok" response and awaits the next line
ControlDone(ok) ==
    /\ pc = "control"
    /\ IF ok
       THEN Respond(Ok, ControlId(line))
       ELSE /\ pc' = "crashed"
            /\ UNCHANGED OutVars
    /\ invoked' = "none"
    /\ UNCHANGED <<line, stdoutOpen>>
    /\ UNCHANGED DebounceVars
    /\ UNCHANGED VolumeVars

\* a cancellation that ends the process where it stands, with no except
\* clause run
CancelExit ==
    /\ pc \in {"reading", "control"}
    /\ pc' = "exited"
    /\ invoked' = "none"
    /\ UNCHANGED <<line, stdoutOpen>>
    /\ UNCHANGED OutVars
    /\ UNCHANGED DebounceVars
    /\ UNCHANGED VolumeVars

\* the main task is cancelled inside the try block: CancelledError is raised
\* at its await and caught
Cancel ==
    /\ pc \in {"reading", "control"}
    /\ pc' = "unsubscribing"
    /\ invoked' = "none"
    /\ UNCHANGED <<line, stdoutOpen>>
    /\ UNCHANGED OutVars
    /\ UNCHANGED DebounceVars
    /\ UNCHANGED VolumeVars

\* async_unsubscribe_services returns; exit(0)
Unsubscribed ==
    /\ pc = "unsubscribing"
    /\ pc' = "exited"
    /\ UNCHANGED <<invoked, line, stdoutOpen>>
    /\ UNCHANGED OutVars
    /\ UNCHANGED DebounceVars
    /\ UNCHANGED VolumeVars

\* the outbound stream stops, or starts again, accepting writes
StdoutFault ==
    /\ Alive
    /\ stdoutOpen' = ~stdoutOpen
    /\ UNCHANGED MainVars
    /\ UNCHANGED OutVars
    /\ UNCHANGED DebounceVars
    /\ UNCHANGED VolumeVars

(***************************************************************************)
(* Specifications.                                                         *)
(***************************************************************************)
InitRun ==
    /\ pc = "connecting"
    /\ transport_state = "NO_MEDIA_PRESENT"
    /\ task = "None"
    /\ tasks = <<>>
    /\ nOut = 0
    /\ lastOut = NoOut
    /\ firstOut = NoOut
    /\ nReady = 0
    /\ stdoutOpen = TRUE
    /\ invoked = "none"
    /\ line = NoLine
    /\ schedState = "NO_MEDIA_PRESENT"
    /\ burst = 0
    /\ dirty = FALSE
    /\ notified = None

\* the renderer reports no volume; get_properties has not been called
Init ==
    /\ InitRun
    /\ volume_level = NoValue
    /\ has_volume_level = FALSE
    /\ volume = NoValue

Next ==
    \/ \E ok \in BOOLEAN : Connect(ok)
    \/ \E ok \in BOOLEAN : Subscribe(ok)
    \/ \E ok \in BOOLEAN : Ready(ok)
    \/ \E l \in Lines : ReadLine(l)
    \/ \E ok \in BOOLEAN : ControlDone(ok)
    \/ Cancel
    \/ Unsubscribed
    \/ \E new \in TransportStates : RendererEvent(new)
    \/ EmptyEvent
    \/ Tick
    \/ \E i \in 1..Len(tasks) : NotifyRun(i)

\* every write to stdout is accepted
Spec == Init /\ [][Next]_vars

NextFault == Next \/ StdoutFault

\* a write to stdout may raise
SpecFault == Init /\ [][NextFault]_vars

\* get_properties(device) computing the "volume" member
GetVolume ==
    /\ volume = NoValue
    /\ volume' = <<props_volume(volume_level, has_volume_level)>>
    /\ UNCHANGED <<volume_level, has_volume_level>>
    /\ UNCHANGED <<MainVars, OutVars, DebounceVars, stdoutOpen>>

InitVolume ==
    /\ InitRun
    /\ volume_level \in Levels
    /\ has_volume_level \in BOOLEAN
    /\ volume = NoValue

NextVolume == GetVolume

\* get_properties applied to a device with any volume level
SpecVolume == InitVolume /\ [][NextVolume]_vars

TypeOK ==
    /\ pc \in {"connecting", "subscribing", "updating", "reading", "control",
               "unsubscribing", "exited", "crashed"}
    /\ transport_state \in TransportStates
    /\ task \in {"None", "Task"}
    /\ nOut \in 0..MaxOut
    /\ nReady \in 0..nOut
    /\ burst \in 0..MaxBurst
    /\ line \in Lines \cup {NoLine}

(***************************************************************************)
(* Properties.  A step of the loop that reads the line l is ReadLine(l),   *)
(* and leaves l in `line`: it is the step ReadLine(line').                 *)
(***************************************************************************)
IsProperties(out) ==
    out.type = "command" /\ out.method = _SNAPCAST_PLAYER_PROPERTIES

\* a step in which a Properties notification is written
PropertiesWritten == nOut' = nOut + 1 /\ IsProperties(lastOut')

\* C1: the non-empty events delivered between the scheduling of _notify and
\* that task's write are answered by exactly one Properties notification,
\* whose params map the renderer state as it is at the write.  While a task
\* is pending every step but its write leaves exactly that one task pending
\* and writes no notification; the write ends the task and its line carries
\* the mapping of the state at that moment.
C1_Coalescing ==
    [][/\ (tasks # <<>> /\ ~PropertiesWritten) => tasks' # <<>> /\ Len(tasks') = 1
       /\ PropertiesWritten =>
            /\ Len(tasks) = 1 /\ tasks' = <<>> /\ burst >= 1
            /\ lastOut'.params = get_properties(transport_state)]_vars

\* a quiet period with two or more events has ended with its notification,
\* and the state written is not the one the first event brought
C1_Witness ==
    /\ tasks = <<>> /\ task = "None" /\ burst >= 2
    /\ IsProperties(lastOut)
    /\ lastOut.params = get_properties(transport_state)
    /\ lastOut.params # get_properties(schedState)

C3_NoPermanentSuppression ==
    (Alive /\ task # "None") => tasks # <<>>

\* C4: a _notify task whose write raises still clears self._task.
C4_MarkerClearedOnWriteFailure ==
    [][(Len(tasks') < Len(tasks) /\ ~PropertiesWritten) => task' = "None"]_vars

\* the properties object a written line carries, None for a line without one
PropertiesOf(out) ==
    IF IsProperties(out) THEN out.params
    ELSE IF out.type = "response" /\ out.result # Ok THEN out.result
    ELSE None

\* C5: every properties object written has playbackStatus in {playing,
\* paused, stopped} and metadata populated iff playbackStatus is not
\* "stopped".
C5_MetadataIffNotStopped ==
    PropertiesOf(lastOut) # None =>
        /\ PropertiesOf(lastOut).playbackStatus \in {"playing", "paused", "stopped"}
        /\ PropertiesOf(lastOut).metadata <=>
               PropertiesOf(lastOut).playbackStatus # "stopped"

IsGetProperties(l) ==
    l.kind = "object" /\ l.method = PlayerMethod("GetProperties")

IsControl(l) ==
    l.kind = "object" /\ l.method = PlayerMethod("Control")

\* C6: a GetProperties request is answered by exactly one response, with the
\* request's id (1 only when it has none) and the mapping of the current
\* renderer state.
C6_GetPropertiesEchoesId ==
    [][(IsGetProperties(line') /\ ReadLine(line')) =>
            /\ nOut' = nOut + 1
            /\ lastOut' = jsonrpc_response(get_properties(transport_state),
                              IF line'.hasId THEN line'.id ELSE DefaultId)]_vars

\* C7: a Control request without id is handled: once its action has
\* completed, a response with id 1 and result "ok" is written and the loop
\* reads the next line.
C7_ControlWithoutId ==
    [][(IsControl(line) /\ ~line.hasId /\ ControlDone(TRUE)) =>
            /\ pc' = "reading"
            /\ nOut' = nOut + 1
            /\ lastOut' = jsonrpc_response(Ok, DefaultId)]_vars

\* C8: a line that is not valid JSON writes nothing and leaves the loop
\* reading.
C8_InvalidJsonDropped ==
    [][(line'.kind \in {"undecodable", "invalid"} /\ ReadLine(line')) =>
            (pc' = "reading" /\ UNCHANGED OutVars)]_vars

\* a line that parses as JSON but is no well-formed request
Malformed(l) ==
    \/ l.kind = "nonobject"
    \/ l.kind = "object" /\ l.method = NoMethod
    \/ l.kind = "object" /\ Len(l.method) = 1
    \/ IsControl(l) /\ l.params \in {Absent, "nocommand"}

\* C9: a line that parses as JSON but is no well-formed request is dropped
\* without a response and the loop reads the next line.
C9_MalformedRequestDropped ==
    [][(Malformed(line') /\ ReadLine(line')) =>
            (pc' = "reading" /\ UNCHANGED OutVars)]_vars

\* a request for another interface, or for a command that is not supported
Foreign(l) ==
    /\ l.kind = "object"
    /\ Len(l.method) >= 2
    /\ \/ SubSeq(l.method, 1, Len(l.method) - 1) # <<"Plugin", "Stream", "Player">>
       \/ l.method[Len(l.method)] \notin {"Control", "SetProperty", "GetProperties"}

\* C10: a request for another interface or an unsupported command writes
\* nothing, invokes no renderer action and leaves the loop reading.
C10_ForeignRequestDropped ==
    [][(Foreign(line') /\ ReadLine(line')) =>
            /\ pc' = "reading"
            /\ invoked' = "none"
            /\ UNCHANGED OutVars]_vars

\* a request for another interface was read after the ready line and dropped
C10_Witness ==
    /\ line.kind = "object" /\ line.method = <<"Foo", "GetProperties">>
    /\ pc = "reading" /\ invoked = "none"
    /\ nOut = 1 /\ lastOut = jsonrpc_command(_SNAPCAST_STREAM_READY, None)

\* a step in which a response is written
ResponseWritten == nOut' = nOut + 1 /\ lastOut'.type = "response"

OkWritten == ResponseWritten /\ lastOut'.result = Ok

\* C12: a response with result "ok" is written only for a Control request,
\* with that request's id, and only by the step in which the awaited
\* renderer action returns (or, for a command that maps to no action, by the
\* step that read the request).  The step that dispatches an action writes
\* nothing, and an action that fails writes nothing.
C12_OkAfterAction ==
    [][/\ OkWritten =>
            /\ IsControl(line') /\ line'.hasId /\ lastOut'.id = line'.id
            /\ \/ /\ pc = "control" /\ line' = line
                  /\ invoked # "none" /\ invoked' = "none"
               \/ ReadLine(line') /\ line'.params \notin ControlCommands
       /\ (IsControl(line') /\ line'.params \in ControlCommands /\ ReadLine(line')) =>
            (pc' = "control" /\ invoked' # "none" /\ UNCHANGED OutVars)
       /\ (pc = "control" /\ pc' = "crashed") => UNCHANGED OutVars]_vars

\* the play action of a Control request has returned and its "ok" is written
C12_Witness ==
    /\ pc = "reading" /\ invoked = "none"
    /\ IsControl(line) /\ line.params = "play" /\ line.hasId
    /\ lastOut = jsonrpc_response(Ok, line.id)

\* C13: a "playPause" dispatch invokes the play action exactly when the
\* transport state at the dispatch is paused, and the pause action in every
\* other state.
C13_PlayPauseByCurrentState ==
    [][(IsControl(line') /\ line'.params = "playPause" /\ ReadLine(line')) =>
            invoked' = IF transport_state = "PAUSED_PLAYBACK"
                       THEN "async_play" ELSE "async_pause"]_vars

\* after an earlier Control request was answered, the renderer paused and a
\* playPause dispatch invoked play
C13_Witness ==
    /\ pc = "control" /\ IsControl(line) /\ line.params = "playPause"
    /\ invoked = "async_play"
    /\ lastOut = jsonrpc_response(Ok, line.id)
    /\ notified = None

IsSetProperty(l) ==
    l.kind = "object" /\ l.method = PlayerMethod("SetProperty")

\* C14: a SetProperty request invokes no renderer action, writes nothing,
\* leaves the debouncer as it is, and the loop reads the next line.
C14_SetPropertyInert ==
    [][(IsSetProperty(line') /\ ReadLine(line')) =>
            /\ pc' = "reading"
            /\ invoked' = "none"
            /\ UNCHANGED OutVars
            /\ UNCHANGED DebounceVars]_vars

\* a SetProperty request was read while a notification was pending
C14_Witness ==
    /\ pc = "reading" /\ invoked = "none" /\ IsSetProperty(line)
    /\ task = "Task" /\ tasks # <<>> /\ dirty
    /\ nOut = nReady /\ IsReady(lastOut)

\* C15: the ready notification, without params, is written exactly once in a
\* session that reaches the loop: none is written before the subscription
\* setup and the first device update are over, it is written before the
\* first line is read, and no response is written before it.
C15_ReadyOnceBeforeLoop ==
    /\ nReady <= 1
    /\ pc \in {"connecting", "subscribing", "updating"} =>
            (nReady = 0 /\ line = NoLine)
    /\ pc \in {"reading", "control", "unsubscribing", "exited"} => nReady = 1
    /\ line # NoLine => nReady = 1
    /\ firstOut.type # "response"
    /\ lastOut.type = "response" => nReady = 1

\* a request was read and answered after the one ready line
C15_Witness ==
    /\ pc = "reading" /\ line # NoLine
    /\ nReady = 1 /\ IsReady(firstOut)
    /\ lastOut.type = "response"

\* C16: while _run reads a line or awaits a Control action, cancellation can
\* be delivered; it ends the wait, drops the action awaited, and takes _run
\* to the unsubscribe.  exit(0) is reached only from there.
C16_CancelUnsubscribes ==
    /\ [](pc \in {"reading", "control"} => ENABLED Cancel)
    /\ [][/\ pc' = "exited" => pc = "unsubscribing"
          /\ (pc # "unsubscribing" /\ pc' = "unsubscribing") =>
                (pc \in {"reading", "control"} /\ invoked' = "none")]_vars

\* a session cancelled while it awaited a Control action has unsubscribed
\* and exited, the action's "ok" never written
C16_Witness ==
    /\ pc = "exited" /\ invoked = "none"
    /\ IsControl(line) /\ line.params = "stop" /\ line.hasId
    /\ nOut = nReady /\ IsReady(lastOut)

\* C17: once readline has returned the empty bytes of end-of-input, the loop
\* stops reading.
C17_EndOfInputStops ==
    [][(line'.kind = "eof" /\ ReadLine(line')) => pc' # "reading"]_vars

\* round(100 * level), halves to the even neighbour, for a level in units of
\* 1/LevelScale
Round100(level) ==
    LET q == (100 * level) \div LevelScale
        r == (100 * level) % LevelScale
    IN  IF 2 * r < LevelScale THEN q
        ELSE IF 2 * r > LevelScale THEN q + 1
        ELSE IF q % 2 = 0 THEN q ELSE q + 1

\* C18: the volume member is an integer in 0..100: round(100 * level) when
\* the renderer supports volume (a missing level counting as 0), and 100 when
\* it does not.
C18_VolumeRounded ==
    volume # NoValue =>
        /\ volume[1] \in 0..100
        /\ volume[1] = IF has_volume_level
                       THEN Round100(IF volume_level = NoValue THEN 0
                                     ELSE volume_level[1])
                       ELSE 100

\* C19: at most one _notify task exists.  A callback that finds a task
\* pending leaves self._task and the task's remaining delay as they are (a
\* callback without state variables changes nothing at all), and self._task
\* goes back to None only in the step in which the task ends.
C19_SingleTask ==
    [][/\ Len(tasks') <= 1
       /\ (task = "Task" /\ \E new \in TransportStates : RendererEvent(new)) =>
            UNCHANGED <<task, tasks>>
       /\ (task = "Task" /\ task' = "None") =>
            (Len(tasks) = 1 /\ tasks[1] = 0 /\ tasks' = <<>>)
       /\ (tasks # <<>> /\ tasks' # <<>>) =>
            (tasks'[1] = tasks[1] \/ tasks'[1] = tasks[1] - 1)]_vars

\* events came while a task was pending, changed the state, and the task's
\* sleep ran out on time all the same
C19_Witness ==
    /\ task = "Task" /\ tasks = <<0>>
    /\ burst >= 2 /\ transport_state # schedState

\* C20: the first line written to stdout is the ready notification.
C20_ReadyFirst ==
    firstOut # NoOut => IsReady(firstOut)

====
